---- MODULE Spec2Model ----
(***************************************************************************)
(* Version catalog and download cache of IPS-Vagrant.                      *)
(*                                                                         *)
(* Two manager classes live in the sources and both are modelled:          *)
(*   "DownloadManager" (downloaders/downloader.py, with DownloadMeta) and  *)
(*   "IpsManager"      (downloaders/ips.py, with IpsMeta).                 *)
(* DownloadManager is abstract: its hooks _read_zip and _populate_latest   *)
(* have no body in the sources, so they follow the written design          *)
(* (Archive Reader, Remote Lookup).  IpsManager is a stand-alone class     *)
(* with its own copy of every method.                                      *)
(*                                                                         *)
(* One behaviour is one process run: construction of one manager           *)
(* (populate local, populate latest, sort) followed by get() calls.        *)
(***************************************************************************)
EXTENDS Integers, Sequences, FiniteSets, TLC

VARIABLES
    cls,        \* the class of the manager being run
    pc,         \* "setup" while the constructor runs, then "ready", or "raised" when it was left by an exception
    step,       \* while pc = "setup": the place in setup of the call to make next
    log,        \* TRUE once the attribute self.log has been assigned
    versions,   \* the OrderedDict self.versions: a sequence of [key, meta] items in dict order
    disk,       \* files of the storage directory: file stem -> content (NoFile when absent)
    dirExists,  \* os.path.isdir(self.path)
    remote,     \* what the license page request of this run was answered (NoLookup before it)
    last,       \* what the last executed operation was given and what it produced
    lockFile,   \* os.path.exists(<data>/setup.lck)
    manPath,    \* what /usr/local/share/man/man1 is: "absent", "dir" or "file"
    cpc,        \* the setup command: 0 when it is not running, else the place in cli_steps of the step to run next
    performed,  \* the steps the running (or last) setup command has completed, in order
    outcome,    \* of the last setup command: "none", "running", "raised" or "done"
    runs        \* the number of times the setup command was started

cliVars == <<lockFile, manPath, cpc, performed, outcome, runs>>

vars == <<cls, pc, step, log, versions, disk, dirExists, remote, last,
          lockFile, manPath, cpc, performed, outcome, runs>>

---------------------------------------------------------------------------
(* Bounds of the model.                                                    *)

\* most archive files in the storage directory when the manager is built
MaxArchives == 2
\* most chunks a streamed download response yields
MaxChunks == 2
\* most times the setup command is started
MaxRuns == 2

---------------------------------------------------------------------------
(* Version strings, version tuples and file names.                         *)

Classes == {"DownloadManager", "IpsManager"}

\* The version tuples of the model: 1, 1.0 (1 with a trailing zero segment) and 2.
Versions == {<<1>>, <<1, 0>>, <<2>>}

DigitChar == <<"0", "1", "2", "3", "4", "5", "6", "7", "8", "9">>

Digits == {DigitChar[i] : i \in 1..10}

DigitValue(c) == (CHOOSE i \in 1..10 : DigitChar[i] = c) - 1

\* '.'.join(map(str, v)): the dotted string of a version, as a sequence of characters
RECURSIVE vstring(_)
vstring(v) ==
    IF Len(v) = 0 THEN <<>>
    ELSE IF Len(v) = 1 THEN <<DigitChar[v[1] + 1]>>
    ELSE <<DigitChar[v[1] + 1], ".">> \o vstring(Tail(v))

\* LooseVersion(s).version: the components of s between the dots, digits as integers
RECURSIVE LooseVersion(_)
LooseVersion(s) ==
    IF Len(s) = 0 THEN <<>>
    ELSE IF s[1] = "." THEN LooseVersion(Tail(s))
    ELSE <<DigitValue(s[1])>> \o LooseVersion(Tail(s))

VStrings == {vstring(v) : v \in Versions}

\* str(list) of IpsManager's version lists: "[1, 0]"
RECURSIVE ListItems(_)
ListItems(v) ==
    IF Len(v) = 0 THEN <<>>
    ELSE IF Len(v) = 1 THEN <<DigitChar[v[1] + 1]>>
    ELSE <<DigitChar[v[1] + 1], ",", " ">> \o ListItems(Tail(v))

ListStr(v) == <<"[">> \o ListItems(v) \o <<"]">>

\* A path inside the storage directory is named by its stem: <path>/<stem>.zip.
\* NoPath is the filepath None.
NoPath == <<>>

\* the names archives have when a run starts, and the names files can get
ArchiveStems == VStrings

Stems == VStrings \cup {ListStr(v) : v \in Versions}

---------------------------------------------------------------------------
(* Archive files and other files of the storage directory.                 *)

NoFile == [fmt |-> "absent", manifest |-> <<>>, data |-> <<>>]

\* a file that is no zip container
Corrupt == [fmt |-> "corrupt", manifest |-> <<>>, data |-> <<>>]
\* a zip whose first entry is not ips_XXXXX/
BadTop == [fmt |-> "badtop", manifest |-> <<>>, data |-> <<>>]
\* a zip with the setup directory but no applications/core/data/versions.json
NoManifest == [fmt |-> "nomanifest", manifest |-> <<>>, data |-> <<>>]
\* a well-formed archive: versions.json lists an older release, then the current one
GoodArchive(v) == [fmt |-> "ok", manifest |-> <<vstring(<<0>>), vstring(v)>>, data |-> <<>>]
\* a file written by download()
Downloaded(bytes) == [fmt |-> "download", manifest |-> <<>>, data |-> bytes]

ArchiveContents == {Corrupt, BadTop, NoManifest} \cup {GoodArchive(v) : v \in Versions}

\* The storage directories a run can start from: at most MaxArchives *.zip files.
InitDisks ==
    {d \in [Stems -> ArchiveContents \cup {NoFile}] :
        /\ \A s \in Stems \ ArchiveStems : d[s] = NoFile
        /\ Cardinality({s \in Stems : d[s] # NoFile}) <= MaxArchives}

---------------------------------------------------------------------------
(* Meta entries and the ordered dictionary.                                *)

\* request descriptors: None, the tuple (method, url, params), or a bare url string
NoRequest == [shape |-> "none", method |-> "", url |-> "", params |-> ""]

Descriptor(url) == [shape |-> "tuple", method |-> "post", url |-> url, params |-> "version=latest"]

BareUrl(url) == [shape |-> "str", method |-> "", url |-> url, params |-> ""]

\* DownloadMeta(manager, version, filepath=None, request=None); IpsMeta keeps the
\* request argument in its attribute url
DownloadMeta(version, filepath, request) ==
    [version |-> version, filepath |-> filepath, request |-> request]

IpsMeta(version, filepath, request) ==
    [version |-> version, filepath |-> filepath, request |-> request]

Keys(vs) == {vs[i].key : i \in DOMAIN vs}

\* key in self.versions
HasKey(vs, k) == k \in Keys(vs)

IndexOf(vs, k) == CHOOSE i \in DOMAIN vs : vs[i].key = k

\* self.versions[k] = m on an OrderedDict: an existing key keeps its place
SetItem(vs, k, m) ==
    IF HasKey(vs, k)
    THEN [vs EXCEPT ![IndexOf(vs, k)] = [key |-> k, meta |-> m]]
    ELSE Append(vs, [key |-> k, meta |-> m])

\* Python's order on sequences of integers: element-wise, a proper prefix is smaller
RECURSIVE PyLess(_, _)
PyLess(a, b) ==
    IF Len(b) = 0 THEN FALSE
    ELSE IF Len(a) = 0 THEN TRUE
    ELSE IF a[1] # b[1] THEN a[1] < b[1]
    ELSE PyLess(Tail(a), Tail(b))

\* sorted(items, key=lambda v: v[0])
RECURSIVE sorted(_)
sorted(items) ==
    IF Len(items) = 0 THEN <<>>
    ELSE LET m == CHOOSE i \in DOMAIN items :
                      \A j \in DOMAIN items : ~PyLess(items[j].key, items[i].key)
             rest == [j \in 1..(Len(items) - 1) |-> IF j < m THEN items[j] ELSE items[j + 1]]
         IN <<items[m]>> \o sorted(rest)

\* DownloadManager._sort / IpsManager._sort
sort(vs) == sorted(vs)

IsSorted(vs) == \A i, j \in DOMAIN vs : i < j => PyLess(vs[i].key, vs[j].key)

\* DownloadManager.latest: self.versions[next(reversed(self.versions))], a Meta
DownloadManager_latest(vs) == [type |-> "Meta", value |-> vs[Len(vs)].meta]

\* IpsManager.latest: next(reversed(self.versions)), a key of the dictionary
IpsManager_latest(vs) == [type |-> "key", value |-> vs[Len(vs)].key]

---------------------------------------------------------------------------
(* Reading one archive.  A result is [exc, version]; exc = "none" when the *)
(* call returns.                                                           *)

Returned(v) == [exc |-> "none", version |-> v]

Raised(e) == [exc |-> e, version |-> <<>>]

\* the manifest read at its first element
FirstOf(seq) == seq[1]

\* versions[-1]
LastOf(seq) == seq[Len(seq)]

\* IpsManager._read_zip.  hasLog: whether self.log exists when it runs; every
\* branch past ZipFile() logs through self.log before it returns or raises.
IpsManager_read_zip(file, hasLog) ==
    IF file.fmt = "corrupt" THEN Raised("BadZipfile")
    ELSE IF ~hasLog THEN Raised("AttributeError")
    ELSE IF file.fmt = "badtop" THEN Raised("BadZipfile")
    ELSE IF file.fmt = "nomanifest" THEN Raised("BadZipfile")
    ELSE Returned(LooseVersion(LastOf(file.manifest)))

\* The hook DownloadManager._read_zip, abstract in the sources: the Archive Reader
\* of the design (open, check the top-level directory, check the manifest, parse
\* the manifest's last element).
ArchiveReader_readVersion(file) ==
    IF file.fmt = "corrupt" THEN Raised("BadZipfile")
    ELSE IF file.fmt = "badtop" THEN Raised("BadZipfile")
    ELSE IF file.fmt = "nomanifest" THEN Raised("BadZipfile")
    ELSE Returned(LooseVersion(LastOf(file.manifest)))

---------------------------------------------------------------------------
(* Populating the catalog from the storage directory.  archives is the     *)
(* list glob() returned, d the directory; the result is [versions, exc].   *)

\* _populate_local building each Meta without its filepath
RECURSIVE DownloadManager_populate_local_nopath(_, _, _)
DownloadManager_populate_local_nopath(vs, d, archives) ==
    IF Len(archives) = 0 THEN [versions |-> vs, exc |-> "none"]
    ELSE LET archive == Head(archives)
             r == ArchiveReader_readVersion(d[archive])
         IN IF r.exc = "BadZipfile"
            THEN DownloadManager_populate_local_nopath(vs, d, Tail(archives))
            ELSE IF r.exc # "none" THEN [versions |-> vs, exc |-> r.exc]
            ELSE DownloadManager_populate_local_nopath(
                     SetItem(vs, r.version, DownloadMeta(r.version, NoPath, NoRequest)),
                     d, Tail(archives))

RECURSIVE DownloadManager_populate_local(_, _, _)
DownloadManager_populate_local(vs, d, archives) ==
    IF Len(archives) = 0 THEN [versions |-> vs, exc |-> "none"]
    ELSE LET archive == Head(archives)
             r == ArchiveReader_readVersion(d[archive])
         IN IF r.exc = "BadZipfile"
            THEN \* self.log.warn(...) and on to the next archive
                 DownloadManager_populate_local(vs, d, Tail(archives))
            ELSE IF r.exc # "none" THEN [versions |-> vs, exc |-> r.exc]
            ELSE DownloadManager_populate_local(
                     SetItem(vs, r.version, DownloadMeta(r.version, archive, NoRequest)),
                     d, Tail(archives))

RECURSIVE IpsManager_populate_local(_, _, _, _)
IpsManager_populate_local(vs, d, archives, hasLog) ==
    IF Len(archives) = 0 THEN [versions |-> vs, exc |-> "none"]
    ELSE LET archive == Head(archives)
             r == IpsManager_read_zip(d[archive], hasLog)
         IN IF r.exc = "BadZipfile"
            THEN \* the handler itself calls self.log.warn(...)
                 IF hasLog THEN IpsManager_populate_local(vs, d, Tail(archives), hasLog)
                 ELSE [versions |-> vs, exc |-> "AttributeError"]
            ELSE IF r.exc # "none" THEN [versions |-> vs, exc |-> r.exc]
            ELSE IpsManager_populate_local(
                     SetItem(vs, r.version, IpsMeta(r.version, archive, NoRequest)),
                     d, Tail(archives), hasLog)

---------------------------------------------------------------------------
(* The remote lookup.  A lookup is what the license page request gives:    *)
(* conn (the request got a response), status, whether the page holds the   *)
(* script, the form and the label, the label's text and the form's action. *)

Urls == {"https://example/download"}

Page(status, script, form, label, text) ==
    [conn |-> TRUE, status |-> status, script |-> script, form |-> form,
     label |-> label, text |-> text, action |-> "https://example/download"]

NoLookup == [conn |-> FALSE, status |-> 0, script |-> FALSE, form |-> FALSE,
             label |-> FALSE, text |-> <<>>, action |-> ""]

NoConnection == [NoLookup EXCEPT !.status = -1]

GoodLookups == {Page(200, TRUE, TRUE, TRUE, s) : s \in VStrings}

FailedLookups ==
    {NoConnection, Page(500, TRUE, TRUE, TRUE, vstring(<<2>>)),
     Page(200, FALSE, FALSE, FALSE, <<>>), Page(200, TRUE, FALSE, FALSE, <<>>),
     Page(200, TRUE, TRUE, FALSE, <<>>)}

Lookups == GoodLookups \cup FailedLookups

\* _populate_latest emptying the catalog before it asks the license page
IpsManager_populate_latest_reset(vs, lk, hasLog) ==
    IF ~lk.conn THEN [versions |-> <<>>, exc |-> "ConnectionError"]
    ELSE IF ~hasLog THEN [versions |-> <<>>, exc |-> "AttributeError"]
    ELSE IF lk.status # 200 THEN [versions |-> <<>>, exc |-> "HTTPError"]
    ELSE IF ~lk.script \/ ~lk.form \/ ~lk.label THEN [versions |-> <<>>, exc |-> "AttributeError"]
    ELSE LET version == LooseVersion(lk.text)
             url == lk.action
         IN IF HasKey(vs, version)
            THEN [versions |-> [vs EXCEPT ![IndexOf(vs, version)].meta.request = BareUrl(url)],
                  exc |-> "none"]
            ELSE [versions |-> SetItem(vs, version, IpsMeta(version, NoPath, Descriptor(url))),
                  exc |-> "none"]

\* IpsManager._populate_latest; the result is [versions, exc]
IpsManager_populate_latest(vs, lk, hasLog) ==
    IF ~lk.conn THEN [versions |-> vs, exc |-> "ConnectionError"]
    ELSE IF ~hasLog THEN [versions |-> vs, exc |-> "AttributeError"]
    ELSE IF lk.status # 200 THEN [versions |-> vs, exc |-> "HTTPError"]
    ELSE IF ~lk.script \/ ~lk.form \/ ~lk.label THEN [versions |-> vs, exc |-> "AttributeError"]
    ELSE LET version == LooseVersion(lk.text)
             url == lk.action
         IN IF HasKey(vs, version)
            THEN \* self.versions[version].url = url
                 [versions |-> [vs EXCEPT ![IndexOf(vs, version)].meta.request = BareUrl(url)],
                  exc |-> "none"]
            ELSE [versions |-> SetItem(vs, version, IpsMeta(version, NoPath, Descriptor(url))),
                  exc |-> "none"]

\* The hook DownloadManager._populate_latest, abstract in the sources: the Remote
\* Lookup of the design and the merge of its result into the catalog.
RemoteLookup_populate_latest(vs, lk) ==
    IF ~lk.conn THEN [versions |-> vs, exc |-> "HttpError"]
    ELSE IF lk.status # 200 THEN [versions |-> vs, exc |-> "HttpError"]
    ELSE IF ~lk.script \/ ~lk.form \/ ~lk.label THEN [versions |-> vs, exc |-> "ScrapeError"]
    ELSE LET version == LooseVersion(lk.text)
             url == lk.action
         IN IF HasKey(vs, version)
            THEN [versions |-> [vs EXCEPT ![IndexOf(vs, version)].meta.request = Descriptor(url)],
                  exc |-> "none"]
            ELSE [versions |-> SetItem(vs, version, DownloadMeta(version, NoPath, Descriptor(url))),
                  exc |-> "none"]

---------------------------------------------------------------------------
(* Downloading.  A response is what session.request gives: conn (a         *)
(* response arrived), status, the chunks iter_content yields, and failAt:  *)
(* the number of chunks yielded before the stream breaks, short of all of  *)
(* them (NoFail when the stream ends normally).                            *)

NoFail == 0 - 1

\* Chunk i carries byte i; at most one chunk of a response is an empty keep-alive
\* chunk.
ChunkSeqs ==
    UNION {{[i \in 1..n |-> IF i = k THEN <<>> ELSE <<i>>] : k \in 0..n} : n \in 0..MaxChunks}

Responses ==
    {[conn |-> FALSE, status |-> 0, chunks |-> <<>>, failAt |-> NoFail],
     [conn |-> TRUE, status |-> 404, chunks |-> <<>>, failAt |-> NoFail]}
    \cup UNION {{[conn |-> TRUE, status |-> 200, chunks |-> c, failAt |-> f] :
                    f \in {NoFail} \cup (0..(Len(c) - 1))} : c \in ChunkSeqs}

\* the bytes f.write() has put into the file after the first n chunks
RECURSIVE Written(_, _)
Written(chunks, n) ==
    IF n = 0 THEN <<>>
    ELSE Written(chunks, n - 1) \o chunks[n]

\* the destination when the Meta has no filepath yet
Destination(c, meta) ==
    IF c = "DownloadManager"
    THEN vstring(meta.version)      \* '{v}.zip'.format(v=self.version.vstring)
    ELSE ListStr(meta.version)      \* '{v}.zip'.format(v=self.version), a list

\* download with the old file removed before the response is tested
download_removes_first(c, meta, resp, d, dx) ==
    LET removed == IF meta.filepath # NoPath /\ d[meta.filepath] # NoFile
                   THEN [d EXCEPT ![meta.filepath] = NoFile]
                   ELSE d
        stay(e, n, st) == [meta |-> meta, disk |-> removed, dirExists |-> dx, exc |-> e,
                           requests |-> n, status |-> st]
    IN IF meta.request.shape # "tuple" THEN stay("TypeError", 0, 0)
       ELSE IF ~resp.conn THEN stay("ConnectionError", 1, 0)
       ELSE IF resp.status # 200 THEN stay("HtmlParserError", 1, resp.status)
       ELSE LET filepath == IF meta.filepath # NoPath THEN meta.filepath ELSE Destination(c, meta)
                n == IF resp.failAt = NoFail THEN Len(resp.chunks) ELSE resp.failAt
            IN [meta |-> [meta EXCEPT !.filepath = filepath],
                disk |-> [removed EXCEPT ![filepath] = Downloaded(Written(resp.chunks, n))],
                dirExists |-> TRUE,
                exc |-> IF resp.failAt = NoFail THEN "none" ELSE "ChunkedEncodingError",
                requests |-> 1, status |-> resp.status]

\* download that drops the Meta's request once the file is written
download_consumes_request(c, meta, resp, d, dx) ==
    LET stay(e, n, st) == [meta |-> meta, disk |-> d, dirExists |-> dx, exc |-> e,
                           requests |-> n, status |-> st]
    IN IF meta.request.shape # "tuple" THEN stay("TypeError", 0, 0)
       ELSE IF ~resp.conn THEN stay("ConnectionError", 1, 0)
       ELSE IF resp.status # 200 THEN stay("HtmlParserError", 1, resp.status)
       ELSE LET removed == IF meta.filepath # NoPath /\ d[meta.filepath] # NoFile
                           THEN [d EXCEPT ![meta.filepath] = NoFile]
                           ELSE d
                filepath == IF meta.filepath # NoPath THEN meta.filepath ELSE Destination(c, meta)
                n == IF resp.failAt = NoFail THEN Len(resp.chunks) ELSE resp.failAt
            IN [meta |-> [meta EXCEPT !.filepath = filepath,
                                      !.request = IF resp.failAt = NoFail THEN NoRequest ELSE @],
                disk |-> [removed EXCEPT ![filepath] = Downloaded(Written(resp.chunks, n))],
                dirExists |-> TRUE,
                exc |-> IF resp.failAt = NoFail THEN "none" ELSE "ChunkedEncodingError",
                requests |-> 1, status |-> resp.status]

\* download that takes a Meta without a request tuple as an empty response: it
\* removes the old file and writes an empty one
download_without_request(c, meta, resp, d, dx) ==
    LET stay(e, n, st) == [meta |-> meta, disk |-> d, dirExists |-> dx, exc |-> e,
                           requests |-> n, status |-> st]
        removed == IF meta.filepath # NoPath /\ d[meta.filepath] # NoFile
                   THEN [d EXCEPT ![meta.filepath] = NoFile]
                   ELSE d
        filepath == IF meta.filepath # NoPath THEN meta.filepath ELSE Destination(c, meta)
    IN IF meta.request.shape # "tuple"
       THEN [meta |-> [meta EXCEPT !.filepath = filepath],
             disk |-> [removed EXCEPT ![filepath] = Downloaded(<<>>)],
             dirExists |-> TRUE, exc |-> "none", requests |-> 0, status |-> 0]
       ELSE IF ~resp.conn THEN stay("ConnectionError", 1, 0)
       ELSE IF resp.status # 200 THEN stay("HtmlParserError", 1, resp.status)
       ELSE LET n == IF resp.failAt = NoFail THEN Len(resp.chunks) ELSE resp.failAt
            IN [meta |-> [meta EXCEPT !.filepath = filepath],
                disk |-> [removed EXCEPT ![filepath] = Downloaded(Written(resp.chunks, n))],
                dirExists |-> TRUE,
                exc |-> IF resp.failAt = NoFail THEN "none" ELSE "ChunkedEncodingError",
                requests |-> 1, status |-> resp.status]

\* download that always writes to the file named after the version
download_fresh_name(c, meta, resp, d, dx) ==
    LET stay(e, n, st) == [meta |-> meta, disk |-> d, dirExists |-> dx, exc |-> e,
                           requests |-> n, status |-> st]
    IN IF meta.request.shape # "tuple" THEN stay("TypeError", 0, 0)
       ELSE IF ~resp.conn THEN stay("ConnectionError", 1, 0)
       ELSE IF resp.status # 200 THEN stay("HtmlParserError", 1, resp.status)
       ELSE LET removed == IF meta.filepath # NoPath /\ d[meta.filepath] # NoFile
                           THEN [d EXCEPT ![meta.filepath] = NoFile]
                           ELSE d
                filepath == Destination(c, meta)
                n == IF resp.failAt = NoFail THEN Len(resp.chunks) ELSE resp.failAt
            IN [meta |-> [meta EXCEPT !.filepath = filepath],
                disk |-> [removed EXCEPT ![filepath] = Downloaded(Written(resp.chunks, n))],
                dirExists |-> TRUE,
                exc |-> IF resp.failAt = NoFail THEN "none" ELSE "ChunkedEncodingError",
                requests |-> 1, status |-> resp.status]

\* download that keeps the old file and opens the destination for appending
download_appends(c, meta, resp, d, dx) ==
    LET stay(e, n, st) == [meta |-> meta, disk |-> d, dirExists |-> dx, exc |-> e,
                           requests |-> n, status |-> st]
    IN IF meta.request.shape # "tuple" THEN stay("TypeError", 0, 0)
       ELSE IF ~resp.conn THEN stay("ConnectionError", 1, 0)
       ELSE IF resp.status # 200 THEN stay("HtmlParserError", 1, resp.status)
       ELSE LET filepath == IF meta.filepath # NoPath THEN meta.filepath ELSE Destination(c, meta)
                n == IF resp.failAt = NoFail THEN Len(resp.chunks) ELSE resp.failAt
                old == IF d[filepath] = NoFile THEN Downloaded(<<>>) ELSE d[filepath]
            IN [meta |-> [meta EXCEPT !.filepath = filepath],
                disk |-> [d EXCEPT ![filepath] =
                              [old EXCEPT !.data = @ \o Written(resp.chunks, n)]],
                dirExists |-> TRUE,
                exc |-> IF resp.failAt = NoFail THEN "none" ELSE "ChunkedEncodingError",
                requests |-> 1, status |-> resp.status]

\* DownloadMeta.download / IpsMeta.download on Meta meta of a manager of class c,
\* with directory d and dx = isdir(path).  The result is the Meta, the directory
\* and the exception that escapes ("none" when download returns).
download(c, meta, resp, d, dx) ==
    LET stay(e, n, st) == [meta |-> meta, disk |-> d, dirExists |-> dx, exc |-> e,
                           requests |-> n, status |-> st]
    IN IF meta.request.shape # "tuple" THEN stay("TypeError", 0, 0)   \* request(*None), request(*"https...")
       ELSE IF ~resp.conn THEN stay("ConnectionError", 1, 0)
       ELSE IF resp.status # 200 THEN stay("HtmlParserError", 1, resp.status)
       ELSE LET removed == IF meta.filepath # NoPath /\ d[meta.filepath] # NoFile
                           THEN [d EXCEPT ![meta.filepath] = NoFile]
                           ELSE d
                filepath == IF meta.filepath # NoPath THEN meta.filepath ELSE Destination(c, meta)
                n == IF resp.failAt = NoFail THEN Len(resp.chunks) ELSE resp.failAt
            IN [meta |-> [meta EXCEPT !.filepath = filepath],
                disk |-> [removed EXCEPT ![filepath] = Downloaded(Written(resp.chunks, n))],
                dirExists |-> TRUE,
                exc |-> IF resp.failAt = NoFail THEN "none" ELSE "ChunkedEncodingError",
                requests |-> 1, status |-> resp.status]

\* get with the cache test dropped: it downloads whatever the Meta holds
get_ignores_cache(c, meta, use_cache, resp, d, dx) ==
    LET r == download(c, meta, resp, d, dx)
    IN [ret |-> IF r.exc = "none" THEN r.meta.filepath ELSE NoPath,
        meta |-> r.meta, disk |-> r.disk, dirExists |-> r.dirExists,
        exc |-> r.exc, downloaded |-> TRUE, requests |-> r.requests, status |-> r.status]

\* get with the use_cache test dropped: a Meta with a filepath is never downloaded again
get_keeps_cache(c, meta, use_cache, resp, d, dx) ==
    IF meta.filepath # NoPath
    THEN [ret |-> meta.filepath, meta |-> meta, disk |-> d, dirExists |-> dx,
          exc |-> "none", downloaded |-> FALSE, requests |-> 0, status |-> 0]
    ELSE LET r == download(c, meta, resp, d, dx)
         IN [ret |-> IF r.exc = "none" THEN r.meta.filepath ELSE NoPath,
             meta |-> r.meta, disk |-> r.disk, dirExists |-> r.dirExists,
             exc |-> r.exc, downloaded |-> TRUE, requests |-> r.requests, status |-> r.status]

\* DownloadManager.get(version, use_cache): ret is the value returned
get(c, meta, use_cache, resp, d, dx) ==
    IF meta.filepath # NoPath /\ use_cache
    THEN [ret |-> meta.filepath, meta |-> meta, disk |-> d, dirExists |-> dx,
          exc |-> "none", downloaded |-> FALSE, requests |-> 0, status |-> 0]
    ELSE LET r == download(c, meta, resp, d, dx)
         IN [ret |-> IF r.exc = "none" THEN r.meta.filepath ELSE NoPath,
             meta |-> r.meta, disk |-> r.disk, dirExists |-> r.dirExists,
             exc |-> r.exc, downloaded |-> TRUE, requests |-> r.requests, status |-> r.status]

\* IpsManager.get: the same statements over IpsMeta
IpsManager_get(meta, use_cache, resp, d, dx) == get("IpsManager", meta, use_cache, resp, d, dx)

---------------------------------------------------------------------------
(* The state machine.                                                      *)

\* op: the method; idx: the place in the catalog of the Meta given to get;
\* cached: whether that Meta had a filepath when get was called; exc: the exception
\* that left the method ("none" when it returned); ret: the value get returned;
\* downloaded: download() was called; requests: the HTTP requests sent; status: the
\* status of the download response (0 when none arrived); body: the bytes of all the
\* chunks of a response with status 200; existed: a file was at the destination
\* when download chose it.
NoOp == [op |-> "none", idx |-> 0, use_cache |-> FALSE, cached |-> FALSE, exc |-> "none",
         ret |-> NoPath, downloaded |-> FALSE, requests |-> 0, status |-> 0,
         body |-> <<>>, existed |-> FALSE]

Present(d) == {s \in Stems : d[s] # NoFile}

\* the lists glob() can return for a set of files: every order
Orders(S) == {o \in [1..Cardinality(S) -> S] : \A i, j \in DOMAIN o : i # j => o[i] # o[j]}

\* the constructor asking the license page before it scans the directory
setup_latest_first == <<"populate_latest", "populate_local", "sort">>

\* The calls of DownloadManager._setup and of IpsManager.__init__, in order.
setup == <<"populate_local", "populate_latest", "sort">>

\* the constructor moves on to its next call, or is done
Advance ==
    /\ step' = step + 1
    /\ pc' = IF step = Len(setup) THEN "ready" ELSE "setup"

Abort ==
    /\ step' = step
    /\ pc' = "raised"

Start(c, hasLog) ==
    /\ cls = c
    /\ pc = "setup"
    /\ step = 1
    /\ log = hasLog
    /\ versions = <<>>
    /\ disk \in InitDisks
    /\ dirExists \in {b \in BOOLEAN : Present(disk) # {} => b}
    /\ remote = NoLookup
    /\ last = NoOp
    /\ lockFile = FALSE /\ manPath = "absent" /\ cpc = 0
    /\ performed = <<>> /\ outcome = "none" /\ runs = 0

\* After DownloadManager.__init__ (self.log assigned on line 26) or at the first
\* call of IpsManager.__init__ (self.log is assigned on its last line, 35).
Init == \E c \in Classes : Start(c, c = "DownloadManager")

\* self._populate_local()
PopulateLocal ==
    /\ pc = "setup" /\ setup[step] = "populate_local"
    /\ \E archives \in Orders(Present(disk)) :
       \E r \in {IF cls = "DownloadManager"
                THEN DownloadManager_populate_local(versions, disk, archives)
                ELSE IpsManager_populate_local(versions, disk, archives, log)} :
             /\ versions' = r.versions
             /\ IF r.exc = "none" THEN Advance ELSE Abort
             /\ last' = [NoOp EXCEPT !.op = "populate_local", !.exc = r.exc]
    /\ UNCHANGED <<cls, log, disk, dirExists, remote>>
    /\ UNCHANGED cliVars

\* self._populate_latest(): inside try/except Exception in DownloadManager._setup,
\* bare in IpsManager.__init__
PopulateLatest ==
    /\ pc = "setup" /\ setup[step] = "populate_latest"
    /\ \E lk \in Lookups :
       \E r \in {IF cls = "DownloadManager"
                THEN RemoteLookup_populate_latest(versions, lk)
                ELSE IpsManager_populate_latest(versions, lk, log)} :
             /\ versions' = r.versions
             /\ remote' = lk
             /\ IF cls = "DownloadManager" \/ r.exc = "none" THEN Advance ELSE Abort
             /\ last' = [NoOp EXCEPT !.op = "populate_latest", !.exc = r.exc, !.requests = 1]
    /\ UNCHANGED <<cls, log, disk, dirExists>>
    /\ UNCHANGED cliVars

\* self._sort(); IpsManager.__init__ assigns self.log right after it
Sort ==
    /\ pc = "setup" /\ setup[step] = "sort"
    /\ versions' = sort(versions)
    /\ Advance
    /\ log' = TRUE
    /\ last' = [NoOp EXCEPT !.op = "sort"]
    /\ UNCHANGED <<cls, disk, dirExists, remote>>
    /\ UNCHANGED cliVars

\* The responses a get can meet: one stands for all when the call sends no request
\* (a cache hit, or a Meta whose request cannot be unpacked).
Answers(meta, use_cache) ==
    IF (meta.filepath # NoPath /\ use_cache) \/ meta.request.shape # "tuple"
    THEN {[conn |-> FALSE, status |-> 0, chunks |-> <<>>, failAt |-> NoFail]}
    ELSE Responses

\* manager.get(meta, use_cache) on the Meta at place i of the catalog
Get ==
    /\ pc = "ready"
    /\ \E i \in DOMAIN versions, use_cache \in BOOLEAN :
       \E resp \in Answers(versions[i].meta, use_cache) :
       \E r \in {IF cls = "DownloadManager"
                THEN get(cls, versions[i].meta, use_cache, resp, disk, dirExists)
                ELSE IpsManager_get(versions[i].meta, use_cache, resp, disk, dirExists)} :
             /\ versions' = [versions EXCEPT ![i].meta = r.meta]
             /\ disk' = r.disk
             /\ dirExists' = r.dirExists
             /\ last' = [NoOp EXCEPT !.op = "get", !.idx = i, !.use_cache = use_cache,
                                     !.cached = (versions[i].meta.filepath # NoPath),
                                     !.exc = r.exc, !.ret = r.ret,
                                     !.downloaded = r.downloaded, !.requests = r.requests,
                                     !.status = r.status,
                                     !.body = IF r.status = 200
                                              THEN Written(resp.chunks, Len(resp.chunks))
                                              ELSE <<>>,
                                     !.existed = (r.status = 200
                                                  /\ disk[r.meta.filepath] # NoFile)]
    /\ UNCHANGED <<cls, pc, step, log, remote>>
    /\ UNCHANGED cliVars

\* manager.latest, defined on a catalog that is not empty
latest ==
    IF cls = "DownloadManager" THEN DownloadManager_latest(versions)
    ELSE IpsManager_latest(versions)

Next == PopulateLocal \/ PopulateLatest \/ Sort \/ Get

\* The program as written.
Spec == Init /\ [][Next]_vars

\* The methods of IpsManager as units: the manager of ips.py run with its logger
\* in place before the populate calls, and with its version lists looked up in the
\* dictionary by value.
InitLogged == Start("IpsManager", TRUE)

SpecLogged == InitLogged /\ [][Next]_vars

\* Both: the program as written and the units of IpsManager.
InitAll == Init \/ InitLogged

SpecAll == InitAll /\ [][Next]_vars

---------------------------------------------------------------------------
(* The setup command (commands/setup/__init__.py, cli).  It builds no      *)
(* manager; its runs are behaviours of their own.                          *)

\* what the command does between the lock test and the lock file, in order
cli_steps ==
    <<"directories", "config", "alembic", "update", "upgrade", "packages", "nginx",
      "restart_nginx", "fpm", "restart_fpm", "man", "welcome">>

\* the place of the last step, the writing of setup.lck
LockStep == Len(cli_steps) + 1

\* the lock test dropped
IsLocked_never(exists) == FALSE

\* if os.path.exists(lock_path): raise Exception('Setup is locked, ...')
IsLocked(exists) == exists

\* One step of the command.  ok: whether the system calls of the step go well.
\* The man step: makedirs when the path does not exist, then
\* shutil.copyfile(man_path, sys_man_path), which opens sys_man_path for writing
\* and so raises when it is a directory, then mandb.
cli_step(name, ok, man) ==
    IF name = "man"
    THEN LET made == IF man = "absent" /\ ok THEN "dir" ELSE man
         IN IF man = "absent" /\ ~ok THEN [raised |-> TRUE, manPath |-> man]
            ELSE IF made = "dir" THEN [raised |-> TRUE, manPath |-> made]
            ELSE [raised |-> ~ok, manPath |-> made]
    ELSE [raised |-> ~ok, manPath |-> man]

\* the download catalog plays no part in a run of the setup command
NoManager ==
    /\ cls = "DownloadManager" /\ pc = "raised" /\ step = 1 /\ log = TRUE
    /\ versions = <<>> /\ disk = [s \in Stems |-> NoFile] /\ dirExists = FALSE
    /\ remote = NoLookup /\ last = NoOp

\* a machine on which setup.lck does not exist yet
InitSetup ==
    /\ NoManager
    /\ lockFile = FALSE
    /\ manPath \in {"absent", "dir", "file"}
    /\ cpc = 0 /\ performed = <<>> /\ outcome = "none" /\ runs = 0

\* ipsv setup is started: lines 21-26
Invoke ==
    /\ cpc = 0 /\ runs < MaxRuns
    /\ runs' = runs + 1
    /\ performed' = <<>>
    /\ IF IsLocked(lockFile)
       THEN cpc' = 0 /\ outcome' = "raised"
       ELSE cpc' = 1 /\ outcome' = "running"
    /\ UNCHANGED <<lockFile, manPath>>
    /\ UNCHANGED <<cls, pc, step, log, versions, disk, dirExists, remote, last>>

\* one of the steps of lines 28-162; an exception ends the command
SetupStep ==
    /\ cpc \in 1..Len(cli_steps)
    /\ \E ok \in BOOLEAN :
       \E r \in {cli_step(cli_steps[cpc], ok, manPath)} :
          /\ manPath' = r.manPath
          /\ IF r.raised
             THEN cpc' = 0 /\ outcome' = "raised" /\ performed' = performed
             ELSE /\ cpc' = cpc + 1 /\ outcome' = outcome
                  /\ performed' = Append(performed, cli_steps[cpc])
    /\ UNCHANGED <<lockFile, runs>>
    /\ UNCHANGED <<cls, pc, step, log, versions, disk, dirExists, remote, last>>

\* lines 164-166: open(<data>/setup.lck, 'w') and f.write('1').  opened: open()
\* created the file; written: the write went well.
WriteLock ==
    /\ cpc = LockStep
    /\ \E opened \in BOOLEAN, written \in BOOLEAN :
          /\ lockFile' = (lockFile \/ opened)
          /\ outcome' = IF opened /\ written THEN "done" ELSE "raised"
          /\ performed' = IF opened /\ written THEN Append(performed, "lock") ELSE performed
    /\ cpc' = 0
    /\ UNCHANGED <<manPath, runs>>
    /\ UNCHANGED <<cls, pc, step, log, versions, disk, dirExists, remote, last>>

\* the operator removes setup.lck ("please remove the setup lock file to continue")
RemoveLock ==
    /\ cpc = 0 /\ lockFile
    /\ lockFile' = FALSE
    /\ UNCHANGED <<manPath, cpc, performed, outcome, runs>>
    /\ UNCHANGED <<cls, pc, step, log, versions, disk, dirExists, remote, last>>

NextSetup == Invoke \/ SetupStep \/ WriteLock \/ RemoveLock

SpecSetup == InitSetup /\ [][NextSetup]_vars

---------------------------------------------------------------------------
(* Properties.                                                             *)

IsGet(l) == l.op = "get"

\* the Meta the last get was given, as it is now
Given == versions[last.idx].meta

\* C1: a get with use_cache on a Meta that has a filepath returns that filepath,
\* calls no download, sends no request, and leaves the Meta, the catalog and the
\* storage directory as they were.
C1_CacheHit ==
    [][(IsGet(last') /\ pc = "ready" /\ last'.use_cache
            /\ versions[last'.idx].meta.filepath # NoPath)
       => /\ last'.exc = "none"
          /\ last'.ret = versions[last'.idx].meta.filepath
          /\ ~last'.downloaded
          /\ last'.requests = 0
          /\ versions' = versions
          /\ disk' = disk
          /\ dirExists' = dirExists]_vars

C1_Witness ==
    /\ IsGet(last) /\ last.use_cache /\ last.cached
    /\ last.ret = Given.filepath /\ last.ret # NoPath

\* C2 as stated: every get without use_cache on a Meta that has a filepath calls
\* download and returns the filepath that download wrote.
C2_BypassAlwaysReturns ==
    (IsGet(last) /\ last.cached /\ ~last.use_cache)
    => /\ last.downloaded
       /\ last.exc = "none"
       /\ last.ret = Given.filepath
       /\ disk[last.ret].fmt = "download"

\* C2, amended: every get without use_cache on a Meta that has a filepath calls
\* download; when download returns, get returns the Meta's filepath, which names the
\* file that download wrote; download returns only for a Meta with a request tuple.
C2_Bypass ==
    (IsGet(last) /\ last.cached /\ ~last.use_cache)
    => /\ last.downloaded
       /\ last.exc = "none" =>
             /\ last.ret = Given.filepath
             /\ last.ret # NoPath
             /\ disk[last.ret].fmt = "download"
             /\ last.requests = 1
             /\ Given.request.shape = "tuple"

C2_Witness ==
    /\ IsGet(last) /\ last.cached /\ ~last.use_cache
    /\ last.downloaded /\ last.exc = "none"
    /\ disk[last.ret].fmt = "download"

\* the versions the well-formed archives of a directory carry
LocalVersions(d) == {LooseVersion(LastOf(d[s].manifest)) : s \in {x \in Present(d) : d[x].fmt = "ok"}}

UniqueKeys(vs) == \A i, j \in DOMAIN vs : vs[i].key = vs[j].key => i = j

\* the version the license page named, when the lookup went well
RemoteVersion == LooseVersion(remote.text)

LocalEntriesPresent ==
    \A v \in LocalVersions(disk) :
        \E i \in DOMAIN versions : versions[i].key = v /\ versions[i].meta.filepath # NoPath

\* C4: a failed lookup (a status that is not success, a page without the script,
\* the form or the label) never ends construction with an exception;
\* the constructed catalog is sorted and holds every entry of the local scan.
C4_LookupFailureSwallowed ==
    (remote \in FailedLookups /\ remote.conn)
    => /\ pc # "raised"
       /\ pc = "ready" => IsSorted(versions) /\ LocalEntriesPresent

\* C5: populate local never raises, whatever files the directory holds, and every
\* well-formed archive beside a rejected one has its entry.
C5_PopulateLocalNeverRaises ==
    last.op = "populate_local" => last.exc = "none" /\ LocalEntriesPresent

\* C6: when the download response has a status that is not success, download raises,
\* the exception leaves get, no file is written or deleted, and the Meta keeps its
\* filepath.
C6_FailedStatus ==
    [][(IsGet(last') /\ last'.status # 0 /\ last'.status # 200)
       => /\ last'.exc = "HtmlParserError"
          /\ last'.ret = NoPath
          /\ disk' = disk
          /\ dirExists' = dirExists
          /\ versions' = versions]_vars

C6_Witness ==
    /\ IsGet(last) /\ last.status = 404 /\ last.exc = "HtmlParserError"
    /\ last.cached /\ disk[Given.filepath] # NoFile

\* C7: when download is called for a Meta without a filepath and an exception leaves
\* it, the Meta still has no filepath.
C7_FilepathOnlyOnCompletion ==
    (IsGet(last) /\ ~last.cached /\ last.exc # "none") => Given.filepath = NoPath

HasEither(meta) == meta.filepath # NoPath \/ meta.request # NoRequest

\* C8: every Meta of the catalog has a filepath or a request at every moment; the
\* Metas the local scan makes have a filepath and no request; a Meta the lookup adds
\* has a request and no filepath.
C8_FilepathOrRequest ==
    [][/\ \A i \in DOMAIN versions' : HasEither(versions'[i].meta)
       /\ last'.op = "populate_local" =>
             \A i \in DOMAIN versions' :
                 versions'[i].key \notin Keys(versions) =>
                     /\ versions'[i].meta.filepath # NoPath
                     /\ versions'[i].meta.request = NoRequest
       /\ last'.op = "populate_latest" =>
             \A i \in DOMAIN versions' :
                 versions'[i].key \notin Keys(versions) =>
                     /\ versions'[i].meta.filepath = NoPath
                     /\ versions'[i].meta.request # NoRequest]_vars

\* a catalog with a scanned entry, an entry the lookup added, and a download done
C8_Witness ==
    /\ IsGet(last) /\ last.downloaded /\ last.exc = "none"
    /\ \E i \in DOMAIN versions : versions[i].meta.request = NoRequest
    /\ \E i \in DOMAIN versions :
          versions[i].meta.filepath # NoPath /\ versions[i].meta.request # NoRequest

Greatest(vs) == CHOOSE i \in DOMAIN vs : \A j \in DOMAIN vs : ~PyLess(vs[i].key, vs[j].key)

C11_WritesBody ==
    [][(IsGet(last') /\ last'.downloaded /\ last'.exc = "none")
       => /\ last'.ret # NoPath
          /\ disk'[last'.ret] = Downloaded(last'.body)
          /\ \A s \in Stems \ {last'.ret} : disk'[s] = disk[s]]_vars

\* a Meta without a filepath downloaded over a file that was at its destination
C11_Witness ==
    /\ IsGet(last) /\ last.downloaded /\ last.exc = "none"
    /\ ~last.cached /\ last.existed
    /\ Len(last.body) = MaxChunks
    /\ disk[last.ret] = Downloaded(last.body)

CurrentVersion(file) == LooseVersion(file.manifest[Len(file.manifest)])

WellFormed(d) == {s \in Present(d) : d[s].fmt = "ok"}

\* C13: when populate local returns, the catalog has one entry for each version that
\* a well-formed archive of the directory carries and no other entry; each entry's
\* filepath is a well-formed archive carrying the entry's version, and it has no
\* request.
C13_LocalCatalog ==
    (last.op = "populate_local" /\ last.exc = "none")
    => /\ UniqueKeys(versions)
       /\ Keys(versions) = {CurrentVersion(disk[s]) : s \in WellFormed(disk)}
       /\ \A i \in DOMAIN versions :
             /\ versions[i].meta.version = versions[i].key
             /\ versions[i].meta.request = NoRequest
             /\ versions[i].meta.filepath \in WellFormed(disk)
             /\ CurrentVersion(disk[versions[i].meta.filepath]) = versions[i].key

\* a directory with a rejected archive beside a well-formed one
C13_Witness ==
    /\ last.op = "populate_local" /\ last.exc = "none"
    /\ Len(versions) = 1
    /\ Cardinality(Present(disk)) = MaxArchives
    /\ Present(disk) \ WellFormed(disk) # {}

\* element i of a version, zero past its end
Padded(v, i) == IF i <= Len(v) THEN v[i] ELSE 0

\* equality of two versions with the shorter one padded with zeros
PadEqual(a, b) ==
    \A i \in 1..(IF Len(a) > Len(b) THEN Len(a) ELSE Len(b)) : Padded(a, i) = Padded(b, i)

C15_FailedLookupKeepsCatalog ==
    [][(last'.op = "populate_latest" /\ last'.exc # "none") => versions' = versions]_vars

\* a failed lookup of IpsManager over a catalog with a scanned entry
C15_Witness ==
    /\ last.op = "populate_latest" /\ last.exc # "none"
    /\ cls = "IpsManager" /\ log /\ remote.conn
    /\ Len(versions) > 0

\* C16 as stated: every get with use_cache on a Meta without a filepath makes one
\* download and returns the new filepath.
C16_FirstGetAlwaysReturns ==
    (IsGet(last) /\ ~last.cached /\ last.use_cache)
    => /\ last.downloaded /\ last.requests = 1
       /\ last.exc = "none"
       /\ last.ret # NoPath /\ last.ret = Given.filepath

\* C16, amended: get calls download exactly when the Meta has no filepath or
\* use_cache is false, and a call of download sends at most one request.  A get with
\* use_cache on a Meta without a filepath sends one request and, when download
\* returns, returns the new filepath.  A filepath once set never changes, and a get
\* with use_cache on a Meta with a filepath returns it without a request; so every
\* later get with use_cache returns the same filepath and sends nothing.
C16_NoDuplicateDownloads ==
    [][IsGet(last') =>
          LET old == versions[last'.idx].meta
              new == versions'[last'.idx].meta
          IN /\ last'.downloaded <=> (old.filepath = NoPath \/ ~last'.use_cache)
             /\ last'.requests <= 1
             /\ ~last'.downloaded => last'.requests = 0
             /\ (old.filepath = NoPath /\ last'.use_cache) =>
                    /\ last'.requests = 1
                    /\ last'.exc = "none" =>
                           last'.ret = new.filepath /\ new.filepath # NoPath
             /\ old.filepath # NoPath => new.filepath = old.filepath
             /\ (old.filepath # NoPath /\ last'.use_cache) =>
                    last'.ret = old.filepath /\ last'.exc = "none"]_vars

\* a cache hit on a file that an earlier get downloaded
C16_Witness ==
    /\ IsGet(last) /\ last.cached /\ last.use_cache /\ last.requests = 0
    /\ last.ret = Given.filepath
    /\ disk[last.ret].fmt = "download"
    /\ remote \in GoodLookups /\ RemoteVersion \notin LocalVersions(disk)
    /\ Given.version = RemoteVersion

\* C17: download on a Meta that has no request raises before it sends anything or
\* touches the storage directory: no file is removed or written, the directory is
\* not created, and the Meta keeps its filepath.
C17_NoRequestNoDamage ==
    [][(IsGet(last') /\ last'.downloaded
            /\ versions[last'.idx].meta.request = NoRequest)
       => /\ last'.exc # "none"
          /\ last'.requests = 0
          /\ disk' = disk
          /\ dirExists' = dirExists
          /\ versions' = versions]_vars

\* a get without use_cache on a scanned Meta: download raised, the archive is there
C17_Witness ==
    /\ IsGet(last) /\ last.downloaded /\ last.cached /\ ~last.use_cache
    /\ Given.request = NoRequest
    /\ last.exc = "TypeError"
    /\ disk[Given.filepath].fmt = "ok"

\* C18: a get, whether it hits the cache, downloads, or fails, leaves the catalog's
\* keys and their order, every Meta's version and request, and every Meta other
\* than the one it was given as they were; only that Meta's filepath may change.
C18_GetKeepsCatalog ==
    [][IsGet(last') =>
          /\ Len(versions') = Len(versions)
          /\ \A i \in DOMAIN versions :
                /\ versions'[i].key = versions[i].key
                /\ versions'[i].meta.version = versions[i].meta.version
                /\ versions'[i].meta.request = versions[i].meta.request
                /\ i # last'.idx => versions'[i].meta = versions[i].meta
          /\ pc' = pc]_vars

\* a download gave the Meta a filepath in a catalog of two entries
C18_Witness ==
    /\ IsGet(last) /\ last.downloaded /\ ~last.cached /\ last.exc = "none"
    /\ Given.filepath # NoPath /\ Given.request # NoRequest
    /\ Len(versions) > 1

\* C19: a setup command started while setup.lck exists raises before it does
\* anything else; setup.lck comes into being only at the last step, after every
\* earlier step of that run went well; a run that raised at an earlier step leaves
\* no lock, and a run started without the lock goes on to its first step; a run
\* that is done has left the lock, so no run gets past the test until the lock is
\* removed.
C19_SetupLock ==
    [][/\ (runs' = runs + 1 /\ lockFile) =>
             /\ outcome' = "raised" /\ cpc' = 0 /\ performed' = <<>>
             /\ lockFile' /\ manPath' = manPath
       /\ (runs' = runs + 1 /\ ~lockFile) => cpc' = 1 /\ outcome' = "running"
       /\ (lockFile' /\ ~lockFile) => cpc = LockStep /\ performed = cli_steps
       /\ (cpc \in 1..Len(cli_steps) /\ outcome' = "raised") => lockFile' = lockFile
       /\ (outcome' = "done" /\ outcome # "done") => lockFile'
                                                   /\ performed' = Append(cli_steps, "lock")
      ]_vars

\* a run went through to the lock and the next run was turned away by it
C19_Witness ==
    /\ runs = 2 /\ outcome = "raised" /\ lockFile
    /\ performed = <<>> /\ cpc = 0

====
